---- MODULE Spec2Model ----
(***************************************************************************)
(* Model of the request-coalescing inference server:                       *)
(*   - BatchScheduler (app/services/batch_scheduler.py): the asyncio queue, *)
(*     the single worker task, the futures of the queue items, stop();      *)
(*   - CircuitBreaker (app/services/circuit_breaker.py): the guard's state  *)
(*     machine entered and left by concurrent callers.                      *)
(* The scheduler runs on one cooperative event loop: a task runs without    *)
(* interruption from one await to the next, so every worker action below    *)
(* goes from one suspension point of _worker_loop to the next one.          *)
(* Time is a discrete clock (time.time() read at the moment of the step).   *)
(* A wait_for(queue.get(), timeout) is taken to suspend the worker whether  *)
(* or not an item is at hand, which covers the asyncio versions that do and *)
(* those that do not; a cancellation is raised at the await it meets.       *)
(***************************************************************************)
EXTENDS Integers, Sequences, FiniteSets, TLC

\* ---------------------------------------------------------------- bounds
\* Number of BatchScheduler.predict calls made in a run.
MaxItems == 3
\* Last value of the clock in the scheduler specification.
MaxTime == 2
\* Number of stop() calls made in a run.
MaxStops == 1
\* Number of start() calls made in a run.
MaxStarts == 2
\* Constructor parameters of BatchScheduler, scaled down.
max_batch_size == 2
max_latency == 1
max_queue_size == 2
\* Constructor parameters of CircuitBreaker, scaled down.
failure_threshold == 2
recovery_timeout == 1
\* Number of threads that use the breaker, and the last value of its clock.
MaxCallers == 2
BreakerMaxTime == 3
\* The time F takes to score a batch, the scheduling slack allowed on top of a latency
\* bound, and the last value of the clock in the timed scheduler specification.
ScoreTime == 3
Slack == 1
LatencyMaxTime == 8

\* Number of InferenceService.predict calls, the most rows one of them carries, and
\* the number of promote calls that succeed in a run.
MaxRequests == 2
MaxRows == 2
MaxPromotes == 2
\* The most model instances the registry constructs for one version in a run.
MaxInstances == 2
\* Number of scoring calls (scheduler batch, direct call, job chunk) in flight at once.
MaxScorers == 2

\* Number of JobManager.submit calls, the largest pool the JobManager is built with,
\* and the number of scheduler batches that go to the device while jobs run.
MaxJobs == 4
MaxPool == 4
MaxOnline == 1
\* _predict_sync: chunk_size; time.sleep(0.05) in milliseconds.
chunk_size == 8
sleep_ms == 50
\* ExampleModel.predict: latency = 0.01 + 0.001 * len(features), in milliseconds.
base_ms == 10
per_row_ms == 1

Items == 1..MaxItems
Stoppers == 1..MaxStops
Callers == 1..MaxCallers
\* Errors the scoring callback F (InferenceService._run_batch_prediction) raises.
FErrors == {"CircuitBreakerOpen", "FileNotFoundError"}
NoVal == [none |-> TRUE]
\* Who holds the device lock: a job, the scheduler's thread, or nobody.
OnlineThread == 0
NoHolder == -1
Requests == 1..MaxRequests
Jobs == 1..MaxJobs
Scorers == 1..MaxScorers
\* The offline requests made: the number of rows and the version named (enqueue_batch).
JobInputs == {[n |-> 2 * chunk_size, model_version |-> "none"],
              [n |-> 1, model_version |-> "v3"]}
\* Version identifiers, and those with an artifact <registry_path>/<version>/model.json.
Versions == {"v1", "v2", "v3"}
Artifacts == {"v1", "v2"}
\* AppSettings.default_model_version: os.getenv("DEFAULT_MODEL_VERSION", "v1")
settings_default_model_version == "v1"

VARIABLES
    now,          \* time.time()
    nextItem,     \* number of predict() calls made so far + 1
    queue,        \* BatchScheduler.queue: sequence of item ids
    fut,          \* item -> state of _QueueItem.future
    val,          \* item -> result or exception held by the future
    received_at,  \* item -> _QueueItem.received_at
    submitRes,    \* item -> how predict()'s synchronous part ended
    shutdown,     \* BatchScheduler._shutdown
    worker,       \* where the worker task is (see WorkerStates)
    mustCancel,   \* Task.cancel() was requested and not yet delivered
    batch_items,  \* _worker_loop's batch_items
    deadline,     \* _worker_loop's deadline
    stopPc,       \* stop() caller -> "idle" | "waiting" | "done" | "done_noworker"
    orphanF,      \* F invocations still running in a thread after the worker was cancelled
    takenAt,      \* history: the time at which the first item of the current batch was taken
    started,      \* history: the start() calls made and the worker tasks they created
    \* history
    enq,          \* accepted items, in enqueue order
    batches,      \* batches handed to F, in order
    settled,      \* items whose future the worker settled, in order
    leftAtStop,   \* history: stop() caller -> the items in the queue when it returned
    \* CircuitBreaker
    breaker,      \* [state, failure_count, last_failure_time]: the fields of the breaker
    guarded,      \* caller -> "out" | "in" (inside the with block)
    bev,          \* history: the last operation on the breaker, and what its caller saw
    consec,       \* history: expected-error outcomes since the last success outcome
    tripped,      \* history: the breaker went CLOSED -> OPEN and nobody tried to enter since
    probe,        \* history: the caller whose entry moved the breaker OPEN -> HALF_OPEN and
                  \* who is still inside the guarded region (0: none)
    \* ModelRegistry
    loaded_models,   \* the keys of ModelRegistry._loaded_models
    default_version, \* ModelRegistry._default_version
    rev,             \* history: the last operation on the registry and how it ended
    defHist,         \* history: the defaults so far, the initial one and one per promote done
    gen,             \* version -> ExampleModel instances constructed for it so far; the
                     \* instance cached for a loaded version v is <<v, gen[v]>>
    \* scoring calls on the model instances
    call,         \* scorer -> where the call is, its kind, its version, the instance it uses
    \* InferenceService.health
    health,       \* the last reply of health(): its status and default_model
    \* InferenceService.batch_status
    bstat,        \* the batch_status call: where it is, its job_id, its locals status and result
    \* InferenceService.predict
    req,          \* request -> where the call is, its arguments and locals, what scored its rows
    rowQueue,     \* the rows handed to the scheduler and not yet in a batch: <<request, row>>
    fcall,        \* the invocation of F on the batch the scheduler formed
    \* JobManager, offline jobs and the device lock
    pool,         \* max_workers of the executor (0: the JobManager is not built yet)
    nextJob,      \* number of submit() calls made so far + 1
    job,          \* job -> where its thread is in wrapped_fn / _predict_sync, and its locals
    jobFile,      \* job -> content of <storage_dir>/<job_id>.json
    execQueue,    \* the executor's work queue
    lockHolder,   \* holder of ExampleModel._lock of the default model (NoHolder: free)
    online,       \* the scheduler's thread running F: where it is in model.predict
    onlineCount,  \* batches the scheduler has sent to the device
    written,      \* history: job -> the statuses written to its record, in order
    heldRows,     \* history: rows covered by the current holding of the lock
    overtakes     \* history: job -> lock acquisitions since the waiting batch began to wait

schedVars == <<now, nextItem, queue, fut, val, received_at, submitRes, shutdown,
               worker, mustCancel, batch_items, deadline, stopPc, orphanF, takenAt,
               started, enq, batches, settled, leftAtStop>>

\* the scheduler's variables but the clock
schedRest == <<nextItem, queue, fut, val, received_at, submitRes, shutdown,
               worker, mustCancel, batch_items, deadline, stopPc, orphanF, takenAt,
               started, enq, batches, settled, leftAtStop>>

brkVars == <<breaker, guarded, bev, consec, tripped, probe>>

regVars == <<loaded_models, default_version, rev, defHist, gen>>

\* what the scheduler's actions and the breaker's actions leave alone
svcVars == <<req, rowQueue, fcall>>

scoreVars == <<call>>

healthVars == <<health>>

statusVars == <<bstat>>

jobVars == <<pool, nextJob, job, jobFile, execQueue, lockHolder, online, onlineCount,
             written, heldRows, overtakes>>

notSched == <<brkVars, regVars, svcVars, jobVars, scoreVars, healthVars, statusVars>>
notBrk == <<regVars, svcVars, jobVars, scoreVars, healthVars, statusVars>>
\* what the registry's operations leave alone
notReg == <<schedVars, brkVars, svcVars, jobVars, scoreVars, healthVars, statusVars>>
\* what the steps of InferenceService.predict leave alone
notSvc == <<schedVars, brkVars, jobVars, scoreVars, healthVars, statusVars>>
\* what the JobManager, the jobs and the device leave alone
notJob == <<schedVars, brkVars, svcVars, scoreVars, healthVars, statusVars,
           default_version, defHist, gen>>

vars == <<schedVars, brkVars, regVars, svcVars, jobVars, scoreVars, healthVars, statusVars>>

WorkerStates == {"none", "created", "wait_first", "wait_more", "scoring", "done"}

\* ------------------------------------------------------------ pure helpers

RECURSIVE Flatten(_)
Flatten(ss) == IF ss = <<>> THEN <<>> ELSE Head(ss) \o Flatten(Tail(ss))

Range(s) == {s[k] : k \in 1..Len(s)}

IsPrefix(s, t) == Len(s) <= Len(t) /\ \A k \in 1..Len(s) : s[k] = t[k]

\* Feature row submitted by the i-th predict() call: one numeric feature.
RowOf(i) == i - 2

\* ExampleModel.predict on one row with the artifact {bias: 0, weights: {a: 1}}:
\* score = bias + sum(w * x); label = 1 iff probability >= 0.5 iff score >= 0.
\* The score stands for the probability, which is a strictly increasing function of it.
ScoreRow(x) == [score |-> x, label |-> IF x >= 0 THEN 1 ELSE 0]

\* ExampleModel.predict: one prediction per row, in the order of the rows.
ModelPredict(rows) == [k \in 1..Len(rows) |-> ScoreRow(rows[k])]

\* faulty variant of QueueFull: the bound is tested off by one
QueueFull_OffByOne(q) == Len(q) > max_queue_size

\* asyncio.Queue.full()
QueueFull(q) == Len(q) >= max_queue_size

\* faulty variant of QueueGet: the newest item is taken instead of the oldest
QueueGet_Lifo(q) == [item |-> q[Len(q)], rest |-> SubSeq(q, 1, Len(q) - 1)]

\* asyncio.Queue.get_nowait(): the item taken and the queue left
QueueGet(q) == [item |-> Head(q), rest |-> Tail(q)]

\* faulty variant of BatchFull: the loop condition is <= instead of <
BatchFull_OffByOne(b) == ~(Len(b) <= max_batch_size)

\* the loop condition of the collecting loop, negated: the batch is closed by size
BatchFull(b) == ~(Len(b) < max_batch_size)

\* ------------------------------------------------------------------- Init

Init ==
    /\ now = 0
    /\ nextItem = 1
    /\ queue = <<>>
    /\ fut = [i \in Items |-> "none"]
    /\ val = [i \in Items |-> NoVal]
    /\ received_at = [i \in Items |-> 0]
    /\ submitRes = [i \in Items |-> "none"]
    /\ shutdown = FALSE
    /\ worker = "none"
    /\ mustCancel = FALSE
    /\ batch_items = <<>>
    /\ deadline = 0
    /\ stopPc = [s \in Stoppers |-> "idle"]
    /\ orphanF = 0
    /\ takenAt = 0
    /\ started = [calls |-> 0, spawned |-> 0]
    /\ enq = <<>>
    /\ batches = <<>>
    /\ settled = <<>>
    /\ leftAtStop = [s \in Stoppers |-> {}]
    /\ breaker = [state |-> "CLOSED", failure_count |-> 0, last_failure_time |-> 0]
    /\ guarded = [c \in Callers |-> "out"]
    /\ bev = [op |-> "init", from |-> "CLOSED", outcome |-> "none", seen |-> "none"]
    /\ consec = 0
    /\ tripped = FALSE
    /\ probe = 0
    /\ loaded_models = {}
    /\ default_version = "v1"
    /\ rev = [op |-> "init", version |-> "v1", raised |-> "none", cached |-> FALSE]
    /\ defHist = <<"v1">>
    /\ gen = [v \in Versions |-> 0]
    /\ health = [status |-> "none", default_model |-> "none"]
    /\ bstat = [pc |-> "idle", job_id |-> 0, status |-> "none", result |-> NoVal]
    /\ call = [c \in Scorers |-> [pc |-> "idle", kind |-> "none", version |-> "none",
                                   inst |-> <<"none", 0>>]]
    /\ req = [r \in Requests |->
                [pc |-> "new", model_version |-> "none", version |-> "none", n |-> 0,
                 start |-> 0, scored |-> <<>>, resp |-> "none", err |-> "none"]]
    /\ rowQueue = <<>>
    /\ fcall = [pc |-> "idle", rows |-> <<>>, version |-> "none"]
    /\ pool = 0
    /\ nextJob = 1
    /\ job = [j \in Jobs |-> [pc |-> "none", n |-> 0, model_version |-> "none",
                               version |-> "none", i |-> 0, timer |-> 0, raised |-> "none",
                               buf |-> [state |-> "absent"]]]
    /\ jobFile = [j \in Jobs |-> [state |-> "absent"]]
    /\ execQueue = <<>>
    /\ lockHolder = NoHolder
    /\ online = [pc |-> "idle", timer |-> 0]
    /\ onlineCount = 0
    /\ written = [j \in Jobs |-> <<>>]
    /\ heldRows = 0
    /\ overtakes = [j \in Jobs |-> 0]


\* ------------------------------------------------- BatchScheduler.predict

Done(f) == f \in {"result", "exception", "cancelled"}

\* predict(): create the future and the item, put_nowait; on QueueFull cancel the
\* future and re-raise, otherwise await the future (the caller stays suspended).
Submit ==
    /\ nextItem <= MaxItems
    /\ LET i == nextItem IN
        /\ nextItem' = nextItem + 1
        /\ received_at' = [received_at EXCEPT ![i] = now]
        /\ IF QueueFull(queue)
           THEN /\ fut' = [fut EXCEPT ![i] = "cancelled"]
                /\ submitRes' = [submitRes EXCEPT ![i] = "QueueFull"]
                /\ UNCHANGED <<queue, enq>>
           ELSE /\ queue' = Append(queue, i)
                /\ fut' = [fut EXCEPT ![i] = "pending"]
                /\ submitRes' = [submitRes EXCEPT ![i] = "accepted"]
                /\ enq' = Append(enq, i)
    /\ UNCHANGED <<now, val, shutdown, worker, mustCancel, batch_items, deadline,
                   stopPc, orphanF, batches, settled, leftAtStop, takenAt, started, notSched>>

\* ---------------------------------------------------- BatchScheduler.start

\* faulty variant of ShouldSpawn: a worker task that has ended is replaced
ShouldSpawn_WhenEnded(w) == w \in {"none", "done"}

\* if self._worker_task is None
ShouldSpawn(w) == w = "none"

\* start(): create the worker task unless one is recorded.
Start ==
    /\ started.calls < MaxStarts
    /\ worker' = IF ShouldSpawn(worker) THEN "created" ELSE worker
    /\ started' = [calls |-> started.calls + 1,
                   spawned |-> IF ShouldSpawn(worker) THEN started.spawned + 1
                               ELSE started.spawned]
    /\ UNCHANGED <<now, nextItem, queue, fut, val, received_at, submitRes, shutdown,
                   mustCancel, batch_items, deadline, stopPc, orphanF, enq, batches,
                   settled, leftAtStop, takenAt, notSched>>

\* ---------------------------------------------- BatchScheduler._worker_loop

\* faulty variant of AwaitThread: the thread is started and not awaited, the worker
\* goes back to the top of its loop
AwaitThread_NotAwaited == "wait_first"

\* await asyncio.to_thread(self.prediction_fn, features): the worker is suspended
\* until the thread running F has finished
AwaitThread == "scoring"

\* _process_batch up to its await: F is started in a thread on the batch.
Process(b, q) ==
    /\ worker' = AwaitThread
    /\ batch_items' = b
    /\ queue' = q
    /\ batches' = Append(batches, [items |-> b, shut |-> shutdown, outcome |-> "running",
                                   err |-> NoVal, preds |-> <<>>, at |-> now])

\* The else branch of the collecting loop taken repeatedly: get_nowait until the
\* batch is full or the queue is empty.
RECURSIVE Drain(_, _)
Drain(b, q) ==
    IF BatchFull(b) \/ q = <<>>
    THEN [b |-> b, q |-> q]
    ELSE Drain(Append(b, QueueGet(q).item), QueueGet(q).rest)

\* The collecting loop from its top with batch b and queue q, up to the next await:
\* the batch is full, or there is time left (wait_for suspends the worker), or the
\* deadline has passed (drain without blocking, then process).
Collect(b, q, dl) ==
    IF BatchFull(b)
    THEN Process(b, q)
    ELSE IF dl - now > 0
         THEN /\ worker' = "wait_more"
              /\ batch_items' = b
              /\ queue' = q
              /\ UNCHANGED batches
         ELSE Process(Drain(b, q).b, Drain(b, q).q)

\* faulty variant of Deadline: the time window is one unit too long
Deadline_Late(t) == t + max_latency + 1

\* deadline = first_item.received_at + self.max_latency
Deadline(t) == t + max_latency

\* The first run of the task: the loop condition, then the blocking get.
WorkerBegin ==
    /\ worker = "created"
    /\ ~mustCancel
    /\ worker' = IF shutdown THEN "done" ELSE "wait_first"
    /\ UNCHANGED <<now, nextItem, queue, fut, val, received_at, submitRes, shutdown,
                   mustCancel, batch_items, deadline, stopPc, orphanF, enq, batches,
                   settled, leftAtStop, takenAt, started, notSched>>

\* await self.queue.get() returns the first item of a batch.
GetFirst ==
    /\ worker = "wait_first"
    /\ ~mustCancel
    /\ queue # <<>>
    /\ LET g == QueueGet(queue)
           dl == Deadline(received_at[g.item])
       IN /\ deadline' = dl
          /\ takenAt' = now
          /\ Collect(<<g.item>>, g.rest, dl)
    /\ UNCHANGED <<now, nextItem, fut, val, received_at, submitRes, shutdown,
                   mustCancel, stopPc, orphanF, enq, settled, leftAtStop, started, notSched>>

\* wait_for(self.queue.get(), timeout=remaining) returns a further item.
GetMore ==
    /\ worker = "wait_more"
    /\ ~mustCancel
    /\ queue # <<>>
    /\ LET g == QueueGet(queue)
       IN Collect(Append(batch_items, g.item), g.rest, deadline)
    /\ UNCHANGED <<now, nextItem, fut, val, received_at, submitRes, shutdown,
                   mustCancel, deadline, stopPc, orphanF, enq, settled, leftAtStop, takenAt, started, notSched>>

\* wait_for times out at the deadline: asyncio.TimeoutError, break, process.
WaitTimeout ==
    /\ worker = "wait_more"
    /\ ~mustCancel
    /\ now >= deadline
    /\ Process(batch_items, queue)
    /\ UNCHANGED <<now, nextItem, fut, val, received_at, submitRes, shutdown,
                   mustCancel, deadline, stopPc, orphanF, enq, settled, leftAtStop, takenAt, started, notSched>>

\* --------------------------------------------- BatchScheduler._process_batch

Min(a, b) == IF a < b THEN a ELSE b

\* zip(items, predictions): the positions both sequences have
ZipLen(its, preds) == Min(Len(its), Len(preds))

\* faulty variant of ResultAt: every item is handed the first prediction
ResultAt_First(preds, k) == preds[1]

\* the prediction the success loop hands to the item at position k
ResultAt(preds, k) == preds[k]

\* the items the failure loop visits
RejectTargets(its) == 1..Len(its)

\* faulty variant of NotDone: the future is settled whatever its state
NotDone_Ignored(st) == TRUE

\* if not item.future.done()
NotDone(st) == ~Done(st)

\* for item, prediction in zip(items, predictions):
\*     if not item.future.done(): item.future.set_result(prediction)
ResolveBatch(f, v, its, preds) ==
    LET hit(i) == \E k \in 1..ZipLen(its, preds) : its[k] = i /\ NotDone(f[i])
        pos(i) == CHOOSE k \in 1..ZipLen(its, preds) : its[k] = i
    IN [fut |-> [i \in Items |-> IF hit(i) THEN "result" ELSE f[i]],
        val |-> [i \in Items |-> IF hit(i) THEN ResultAt(preds, pos(i)) ELSE v[i]],
        set |-> SelectSeq(SubSeq(its, 1, ZipLen(its, preds)), LAMBDA i : NotDone(f[i]))]

\* for item in items: if not item.future.done(): item.future.set_exception(e)
RejectBatch(f, v, its, e) ==
    LET hit(i) == \E k \in RejectTargets(its) : its[k] = i /\ NotDone(f[i])
    IN [fut |-> [i \in Items |-> IF hit(i) THEN "exception" ELSE f[i]],
        val |-> [i \in Items |-> IF hit(i) THEN e ELSE v[i]],
        set |-> SelectSeq(its, LAMBDA i : hit(i))]

\* The rest of _process_batch once the thread running F has finished, and the
\* loop condition of _worker_loop after it.
FinishWith(r, outcome, e, preds) ==
    /\ fut' = r.fut
    /\ val' = r.val
    /\ settled' = settled \o r.set
    /\ batches' = [batches EXCEPT ![Len(batches)].outcome = outcome,
                                  ![Len(batches)].err = e,
                                  ![Len(batches)].preds = preds]
    /\ batch_items' = <<>>
    /\ worker' = IF shutdown THEN "done" ELSE "wait_first"
    /\ UNCHANGED <<now, nextItem, queue, received_at, submitRes, shutdown, mustCancel,
                   deadline, stopPc, orphanF, enq, leftAtStop, takenAt, started, notSched>>

\* F returned its predictions.
FReturns ==
    /\ worker = "scoring"
    /\ ~mustCancel
    /\ LET features == [k \in 1..Len(batch_items) |-> RowOf(batch_items[k])]
           predictions == ModelPredict(features)
       IN FinishWith(ResolveBatch(fut, val, batch_items, predictions),
                     "ok", NoVal, predictions)

\* F raised.
FRaises ==
    /\ worker = "scoring"
    /\ ~mustCancel
    /\ \E e \in FErrors : FinishWith(RejectBatch(fut, val, batch_items, e), "raised", e, <<>>)

\* ----------------------------------------------------- BatchScheduler.stop

\* stop() up to its await: set the flag, cancel the worker task if one is recorded.
StopBegin(s) ==
    /\ stopPc[s] = "idle"
    /\ shutdown' = TRUE
    /\ IF worker = "none"
       THEN /\ stopPc' = [stopPc EXCEPT ![s] = "done_noworker"]
            /\ leftAtStop' = [leftAtStop EXCEPT ![s] = Range(queue)]
            /\ UNCHANGED mustCancel
       ELSE /\ stopPc' = [stopPc EXCEPT ![s] = "waiting"]
            /\ mustCancel' = IF worker = "done" THEN mustCancel ELSE TRUE
            /\ UNCHANGED leftAtStop
    /\ UNCHANGED <<now, nextItem, queue, fut, val, received_at, submitRes, worker,
                   batch_items, deadline, orphanF, enq, batches, settled, takenAt, started, notSched>>

\* await self._worker_task returns (or raises CancelledError, which is swallowed).
StopEnd(s) ==
    /\ stopPc[s] = "waiting"
    /\ worker = "done"
    /\ stopPc' = [stopPc EXCEPT ![s] = "done"]
    /\ leftAtStop' = [leftAtStop EXCEPT ![s] = Range(queue)]
    /\ UNCHANGED <<now, nextItem, queue, fut, val, received_at, submitRes, shutdown,
                   worker, mustCancel, batch_items, deadline, orphanF, enq, batches,
                   settled, takenAt, started, notSched>>

\* The CancelledError of Task.cancel() is raised in the worker at its await:
\*  - not yet run: the task ends cancelled;
\*  - blocking get of the first item: except CancelledError: break, the while
\*    condition is then false and the loop ends;
\*  - wait_for in the collecting loop: except (..., CancelledError, ...): break,
\*    then "if batch_items: await self._process_batch(batch_items)";
\*  - awaiting F's thread: CancelledError is no Exception, _process_batch and the
\*    loop are left, the thread goes on alone.
WorkerCancelled ==
    /\ mustCancel
    /\ mustCancel' = FALSE
    /\ \/ /\ worker \in {"created", "wait_first"}
          /\ worker' = "done"
          /\ UNCHANGED <<queue, batch_items, batches, orphanF>>
       \/ /\ worker = "wait_more"
          /\ Process(batch_items, queue)
          /\ UNCHANGED orphanF
       \/ /\ worker = "scoring"
          /\ worker' = "done"
          /\ orphanF' = orphanF + 1
          /\ batches' = [batches EXCEPT ![Len(batches)].outcome = "abandoned"]
          /\ UNCHANGED <<queue, batch_items>>
    /\ UNCHANGED <<now, nextItem, fut, val, received_at, submitRes, shutdown,
                   deadline, stopPc, enq, settled, leftAtStop, takenAt, started, notSched>>

\* A thread whose awaiting task was cancelled finishes F; nobody reads its result.
OrphanFEnds ==
    /\ orphanF > 0
    /\ orphanF' = orphanF - 1
    /\ UNCHANGED <<now, nextItem, queue, fut, val, received_at, submitRes, shutdown,
                   worker, mustCancel, batch_items, deadline, stopPc, enq, batches,
                   settled, leftAtStop, takenAt, started, notSched>>

\* ------------------------------------------------------------------ clock

Tick ==
    /\ now < MaxTime
    /\ now' = now + 1
    /\ UNCHANGED <<nextItem, queue, fut, val, received_at, submitRes, shutdown,
                   worker, mustCancel, batch_items, deadline, stopPc, orphanF, enq,
                   batches, settled, leftAtStop, takenAt, started, notSched>>

\* ------------------------------------------------------- cancelled callers

\* The task awaiting predict() for item i is cancelled while it awaits the future
\* (line 66): the future is cancelled with it. The item stays where it is, in the
\* queue or in the batch being collected or scored.
CancelCaller(i) ==
    /\ fut[i] = "pending"
    /\ fut' = [fut EXCEPT ![i] = "cancelled"]
    /\ UNCHANGED <<now, nextItem, queue, val, received_at, submitRes, shutdown, worker,
                   mustCancel, batch_items, deadline, stopPc, orphanF, enq, batches,
                   settled, leftAtStop, takenAt, started, notSched>>

\* The scheduler with callers that are cancelled.
CancelNext ==
    \/ Submit
    \/ Start
    \/ WorkerBegin
    \/ GetFirst
    \/ GetMore
    \/ WaitTimeout
    \/ FReturns
    \/ FRaises
    \/ \E s \in Stoppers : StopBegin(s)
    \/ \E s \in Stoppers : StopEnd(s)
    \/ WorkerCancelled
    \/ OrphanFEnds
    \/ \E i \in Items : CancelCaller(i)
    \/ Tick

CancelSpec == Init /\ [][CancelNext]_vars

\* ------------------------------------------------------- timed scheduler
\* The worker with the time that scoring takes: F returns or raises ScoreTime after
\* the batch was handed to it, and the event loop runs the worker as soon as it can
\* run (an item arrived, the wait_for timed out, F's thread finished), so time passes
\* only while the worker is blocked.

\* the thread running F on the current batch has finished
ScoreDue == worker = "scoring" /\ now >= batches[Len(batches)].at + ScoreTime

\* the worker task can run (a cancellation is delivered as soon as it is requested),
\* or is still to be created (the application starts the scheduler when it starts up,
\* before it serves requests)
WorkerDue ==
    \/ worker \in {"none", "created"}
    \/ mustCancel
    \/ worker = "wait_first" /\ queue # <<>>
    \/ worker = "wait_more" /\ (queue # <<>> \/ now >= deadline)
    \/ ScoreDue

\* await asyncio.to_thread(self.prediction_fn, features) returns after ScoreTime
ScoreReturns == ScoreDue /\ FReturns

\* await asyncio.to_thread(self.prediction_fn, features) raises after ScoreTime
ScoreRaises == ScoreDue /\ FRaises

\* time passes while the worker is blocked
TimePasses ==
    /\ now < LatencyMaxTime
    /\ ~WorkerDue
    /\ now' = now + 1
    /\ UNCHANGED <<schedRest, notSched>>

LatencyNext ==
    \/ Submit
    \/ Start
    \/ WorkerBegin
    \/ GetFirst
    \/ GetMore
    \/ WaitTimeout
    \/ ScoreReturns
    \/ ScoreRaises
    \/ \E s \in Stoppers : StopBegin(s)
    \/ \E s \in Stoppers : StopEnd(s)
    \/ WorkerCancelled
    \/ OrphanFEnds
    \/ TimePasses

LatencySpec == Init /\ [][LatencyNext]_vars

\* ---------------------------------------------------------- specification

\* -------------------------------------------------------- CircuitBreaker

\* _transition_to
TransitionTo(b, new_state) == [b EXCEPT !.state = new_state]

\* faulty variant of RecoveryPassed: the timeout counts as passed when exactly reached
RecoveryPassed_Inclusive(t, last) == t - last >= recovery_timeout

\* the test of __enter__ in state OPEN: the recovery timeout has passed
RecoveryPassed(t, last) == t - last > recovery_timeout

\* faulty variant of ThresholdReached: the threshold is tested off by one
ThresholdReached_OffByOne(count) == count > failure_threshold

\* the test of _handle_failure in state CLOSED
ThresholdReached(count) == count >= failure_threshold

\* _handle_failure at time t
HandleFailure(b, t) ==
    LET b1 == [b EXCEPT !.failure_count = b.failure_count + 1,
                        !.last_failure_time = t]
    IN IF b1.state = "HALF_OPEN"
       THEN TransitionTo(b1, "OPEN")
       ELSE IF b1.state = "CLOSED" /\ ThresholdReached(b1.failure_count)
            THEN TransitionTo(b1, "OPEN")
            ELSE b1

\* faulty variant of HandleSuccess: the probe's success closes the breaker without
\* resetting the counter
HandleSuccess_NoReset(b) ==
    IF b.state = "HALF_OPEN"
    THEN TransitionTo(b, "CLOSED")
    ELSE IF b.state = "CLOSED" /\ b.failure_count > 0
         THEN [b EXCEPT !.failure_count = 0]
         ELSE b

\* _handle_success
HandleSuccess(b) ==
    IF b.state = "HALF_OPEN"
    THEN [TransitionTo(b, "CLOSED") EXCEPT !.failure_count = 0]
    ELSE IF b.state = "CLOSED" /\ b.failure_count > 0
         THEN [b EXCEPT !.failure_count = 0]
         ELSE b

\* __exit__: an expected exception is a failure, no exception a success, any other
\* exception is passed on without being recorded
ExitBreaker(b, outcome, t) ==
    IF outcome = "expected" THEN HandleFailure(b, t)
    ELSE IF outcome = "success" THEN HandleSuccess(b)
    ELSE b

Outcomes == {"success", "expected", "unexpected"}

\* faulty variant of ExitSuppress: an expected exception is suppressed
ExitSuppress_Expected(outcome) == outcome = "expected"

\* the value __exit__ returns: whether the with statement suppresses the exception
ExitSuppress(outcome) == FALSE

\* "with self.breaker: return F(features)": what the caller of the with statement
\* sees when the guarded call ended with the given outcome: its return, or the
\* exception it raised unless __exit__ asked to suppress it
WithResult(outcome, suppress) ==
    IF outcome = "success" \/ suppress THEN "returned" ELSE outcome

\* __enter__ by caller c: in OPEN either move to HALF_OPEN and go on, or raise
\* CircuitBreakerOpen; in CLOSED and HALF_OPEN go on.
BEnter(c) ==
    /\ guarded[c] = "out"
    /\ IF breaker.state = "OPEN" /\ ~RecoveryPassed(now, breaker.last_failure_time)
       THEN /\ bev' = [op |-> "refused", from |-> breaker.state, outcome |-> "none",
                        seen |-> "CircuitBreakerOpen"]
            /\ UNCHANGED <<breaker, guarded, probe>>
       ELSE /\ breaker' = IF breaker.state = "OPEN"
                          THEN TransitionTo(breaker, "HALF_OPEN")
                          ELSE breaker
            /\ guarded' = [guarded EXCEPT ![c] = "in"]
            /\ bev' = [op |-> "enter", from |-> breaker.state, outcome |-> "none",
                        seen |-> "none"]
            /\ probe' = IF breaker.state = "OPEN" THEN c ELSE probe
    /\ tripped' = FALSE
    /\ UNCHANGED <<now, consec, schedRest, notBrk>>

\* __exit__ by caller c with the outcome of its guarded call.
BExit(c) ==
    /\ guarded[c] = "in"
    /\ \E outcome \in Outcomes :
        /\ breaker' = ExitBreaker(breaker, outcome, now)
        /\ bev' = [op |-> "exit", from |-> breaker.state, outcome |-> outcome,
                    seen |-> WithResult(outcome, ExitSuppress(outcome))]
        /\ consec' = IF outcome = "expected" THEN consec + 1
                     ELSE IF outcome = "success" THEN 0 ELSE consec
    /\ guarded' = [guarded EXCEPT ![c] = "out"]
    /\ tripped' = IF breaker.state = "CLOSED" /\ breaker'.state = "OPEN"
                  THEN TRUE ELSE tripped
    /\ probe' = IF probe = c THEN 0 ELSE probe
    /\ UNCHANGED <<now, schedRest, notBrk>>

BTick ==
    /\ now < BreakerMaxTime
    /\ now' = now + 1
    /\ bev' = [op |-> "tick", from |-> breaker.state, outcome |-> "none", seen |-> "none"]
    /\ UNCHANGED <<breaker, guarded, consec, tripped, probe, schedRest, notBrk>>

BreakerNext ==
    \/ \E c \in Callers : BEnter(c)
    \/ \E c \in Callers : BExit(c)
    \/ BTick

BreakerSpec == Init /\ [][BreakerNext]_vars

\* --------------------------------------------------------- ModelRegistry

\* The registry as a value: the cached versions and the default version.
Registry == [loaded |-> loaded_models, default |-> default_version]

\* faulty variant of RegLoad: a version without artifact is put in the cache before
\* the error is raised
RegLoad_CacheOnMiss(reg, version) ==
    IF version \in reg.loaded
    THEN [reg |-> reg, raised |-> "none"]
    ELSE [reg |-> [reg EXCEPT !.loaded = @ \cup {version}],
          raised |-> IF version \notin Artifacts THEN "FileNotFoundError" ELSE "none"]

\* load(version): the cached instance, or FileNotFoundError when there is no artifact,
\* or a new instance put in the cache.
RegLoad(reg, version) ==
    IF version \in reg.loaded
    THEN [reg |-> reg, raised |-> "none"]
    ELSE IF version \notin Artifacts
         THEN [reg |-> reg, raised |-> "FileNotFoundError"]
         ELSE [reg |-> [reg EXCEPT !.loaded = @ \cup {version}], raised |-> "none"]

\* faulty variant of RegSetDefault: the default is set before the load is tried
RegSetDefault_SwapFirst(reg, version) ==
    LET r1 == [reg EXCEPT !.default = version]
    IN IF version \notin reg.loaded
       THEN [reg |-> RegLoad(r1, version).reg, raised |-> RegLoad(r1, version).raised]
       ELSE [reg |-> r1, raised |-> "none"]

\* set_default_version(version): load when not cached (an exception of load leaves
\* the method), then set the default; all of it with the lock held.
RegSetDefault(reg, version) ==
    LET l == IF version \notin reg.loaded
             THEN RegLoad(reg, version)
             ELSE [reg |-> reg, raised |-> "none"]
    IN IF l.raised # "none"
       THEN l
       ELSE [reg |-> [l.reg EXCEPT !.default = version], raised |-> "none"]

\* unload(version): ValueError for the default version, otherwise the version is
\* taken out of the cache if it is there.
RegUnload(reg, version) ==
    IF version = reg.default
    THEN [reg |-> reg, raised |-> "ValueError"]
    ELSE [reg |-> [reg EXCEPT !.loaded = @ \ {version}], raised |-> "none"]

\* ExampleModel(version=version, model_path=model_file): every version that enters
\* the cache gets a new instance, with a lock of its own.
GenAfter(loaded) ==
    [v \in Versions |-> IF v \in loaded /\ v \notin loaded_models THEN gen[v] + 1 ELSE gen[v]]

\* The registry after an operation, and the record of the operation.
RegApply(op, version, out) ==
    /\ loaded_models' = out.reg.loaded
    /\ gen' = GenAfter(out.reg.loaded)
    /\ default_version' = out.reg.default
    /\ rev' = [op |-> op, version |-> version, raised |-> out.raised,
               cached |-> version \in loaded_models]

\* InferenceService.load_model -> ModelRegistry.load, from an admin thread
Load(version) ==
    /\ RegApply("load", version, RegLoad(Registry, version))
    /\ UNCHANGED <<defHist, notReg>>

\* InferenceService.unload_model -> ModelRegistry.unload, from an admin thread
Unload(version) ==
    /\ version \in loaded_models => gen[version] < MaxInstances
    /\ RegApply("unload", version, RegUnload(Registry, version))
    /\ UNCHANGED <<defHist, notReg>>

\* InferenceService.promote_model -> ModelRegistry.set_default_version, from an
\* admin thread
Promote(version) ==
    /\ Len(defHist) <= MaxPromotes
    /\ LET out == RegSetDefault(Registry, version)
       IN /\ RegApply("promote", version, out)
          /\ defHist' = IF out.raised = "none" THEN Append(defHist, version) ELSE defHist
    /\ UNCHANGED notReg

\* ----------------------------------------------- InferenceService.predict
\* The admin routes run in threads, so a promote can come between any two reads of
\* the registry that predict makes. The scheduler is taken by its contract here (rows
\* leave the queue in order, in batches of 1..max_batch_size; a batch is scored by one
\* invocation of F at a time); the breaker around F is left out: a refused batch
\* rejects its rows and their requests do not complete.

\* version = model_version or self.registry.default_version
\* (the requests are numbered in the order in which they start)
Resolve(r) ==
    /\ req[r].pc = "new"
    /\ \A r0 \in Requests : r0 < r => req[r0].pc # "new"
    /\ \E mv \in {"none"} \cup Versions, n \in 1..MaxRows :
          req' = [req EXCEPT ![r] =
                    [@ EXCEPT !.pc = "resolved", !.model_version = mv, !.n = n,
                              !.version = IF mv = "none" THEN default_version ELSE mv,
                              !.start = Len(defHist),
                              !.scored = [k \in 1..n |-> "none"]]]
    /\ UNCHANGED <<rowQueue, fcall, regVars, notSvc>>

\* use_batching = (model_version is None) or (model_version == default_version)
UseBatching(model_version, default) == model_version = "none" \/ model_version = default

\* The scheduler.predict calls of one request, made one after the other: a row is
\* put in the queue unless the queue is full.
RowsAccepted(q, n) == Min(n, max_queue_size - Len(q))

\* The batched branch (gather of one scheduler.predict per row) up to its await, or
\* the branch of an explicit version: registry.load(version) and the start of the
\* thread that scores the rows.
Route(r) ==
    /\ req[r].pc = "resolved"
    /\ IF UseBatching(req[r].model_version, default_version)
       THEN LET m == RowsAccepted(rowQueue, req[r].n)
            IN /\ rowQueue' = rowQueue \o [k \in 1..m |-> <<r, k>>]
               /\ req' = [req EXCEPT ![r].pc = IF m < req[r].n THEN "failed" ELSE "queued",
                                     ![r].err = IF m < req[r].n THEN "QueueFull" ELSE "none"]
               /\ UNCHANGED regVars
       ELSE LET out == RegLoad(Registry, req[r].version)
            IN /\ RegApply("load", req[r].version, out)
               /\ req' = [req EXCEPT ![r].pc = IF out.raised = "none" THEN "direct" ELSE "failed",
                                     ![r].err = out.raised]
               /\ UNCHANGED <<rowQueue, defHist>>
    /\ UNCHANGED <<fcall, notSvc>>

\* faulty variant of ResponseVersion: the response reports the version of the model
\* that scored its first row
ResponseVersion_Scorer(q) == q.scored[1]

\* the version the response reports: the local variable version
ResponseVersion(q) == q.version

\* The model instance loaded for an explicit version has scored the rows; the
\* response is built.
DirectDone(r) ==
    /\ req[r].pc = "direct"
    /\ LET q == [req[r] EXCEPT !.scored = [k \in 1..req[r].n |-> req[r].version]]
       IN req' = [req EXCEPT ![r] = [q EXCEPT !.pc = "done", !.resp = ResponseVersion(q)]]
    /\ UNCHANGED <<rowQueue, fcall, regVars, notSvc>>

\* The scheduler's worker forms a batch from the head of the queue and starts F on it
\* in a thread.
FStart ==
    /\ fcall.pc = "idle"
    /\ rowQueue # <<>>
    /\ \E m \in 1..Min(Len(rowQueue), max_batch_size) :
          /\ fcall' = [pc |-> "called", rows |-> SubSeq(rowQueue, 1, m), version |-> "none"]
          /\ rowQueue' = SubSeq(rowQueue, m + 1, Len(rowQueue))
    /\ UNCHANGED <<req, regVars, notSvc>>

\* _unsafe_run_batch_prediction: version = self.registry.default_version
FReadDefault ==
    /\ fcall.pc = "called"
    /\ fcall' = [fcall EXCEPT !.pc = "read", !.version = default_version]
    /\ UNCHANGED <<req, rowQueue, regVars, notSvc>>

\* the rows of request r in the batch
RowsIn(rows, r) == {rows[k][2] : k \in {j \in 1..Len(rows) : rows[j][1] = r}}

\* _unsafe_run_batch_prediction: model = self.registry.load(version);
\* model.predict(features); then the scheduler settles the futures of the rows: each
\* prediction carries the version of the model that made it. An exception of load
\* rejects every row of the batch, and a request with a rejected row fails.
FLoadPredict ==
    /\ fcall.pc = "read"
    /\ LET out == RegLoad(Registry, fcall.version)
       IN /\ RegApply("load", fcall.version, out)
          /\ req' = [r \in Requests |->
                       IF RowsIn(fcall.rows, r) = {} THEN req[r]
                       ELSE IF out.raised # "none"
                            THEN [req[r] EXCEPT !.pc = IF @ = "queued" THEN "failed" ELSE @,
                                                 !.err = IF @ = "none" THEN out.raised ELSE @]
                            ELSE [req[r] EXCEPT !.scored =
                                     [k \in 1..req[r].n |->
                                        IF k \in RowsIn(fcall.rows, r)
                                        THEN fcall.version ELSE req[r].scored[k]]]]
    /\ fcall' = [pc |-> "idle", rows |-> <<>>, version |-> "none"]
    /\ UNCHANGED <<rowQueue, defHist, notSvc>>

\* gather returns when every row of the request has its prediction: the response.
Complete(r) ==
    /\ req[r].pc = "queued"
    /\ \A k \in 1..req[r].n : req[r].scored[k] # "none"
    /\ req' = [req EXCEPT ![r].pc = "done", ![r].resp = ResponseVersion(req[r])]
    /\ UNCHANGED <<rowQueue, fcall, regVars, notSvc>>

\* Online requests routed while the scheduler is started and stopped: the worker
\* task is created by start() and stop() sets the flag and cancels it.
RoutingNext ==
    \/ Start
    \/ WorkerBegin
    \/ \E s \in Stoppers : StopBegin(s)
    \/ \E version \in Versions : Promote(version)
    \/ \E r \in Requests : Resolve(r)
    \/ \E r \in Requests : Route(r)
    \/ \E r \in Requests : DirectDone(r)

RoutingSpec == Init /\ [][RoutingNext]_vars

\* ------------------------------------------- scoring calls and model instances
\* Every scoring call does model = registry.load(version) and then model.predict(...),
\* which takes the lock of that instance. The callers are the scheduler's thread
\* running F (the default version), a predict for an explicit version other than the
\* default, and the thread of an offline job, which keeps its instance for all its
\* chunks.

ScoreKinds == {"batch", "direct", "chunk"}

\* the version a scoring call of the given kind loads, for the version named (or none)
ScoreVersion(kind, mv) ==
    IF kind = "batch" \/ mv = "none" THEN default_version ELSE mv

\* the calls that can be made: F names no version, the direct branch is taken for a
\* named version that is not the default
CanCall(kind, mv) ==
    /\ kind = "batch" => mv = "none"
    /\ kind = "direct" => (mv # "none" /\ ~UseBatching(mv, default_version))

\* the scorers inside the locked section of the given instance
Inside(inst) == {c \in Scorers : call[c].pc = "inside" /\ call[c].inst = inst}

\* version = ...; model = self.registry.load(version): the call holds the instance
\* the registry returned; an exception of load ends the call.
ScoreCall(c) ==
    /\ call[c].pc = "idle"
    /\ \E kind \in ScoreKinds, mv \in {"none"} \cup Versions :
          /\ CanCall(kind, mv)
          /\ LET version == ScoreVersion(kind, mv)
                 out == RegLoad(Registry, version)
             IN /\ RegApply("load", version, out)
                /\ call' = IF out.raised = "none"
                           THEN [call EXCEPT ![c] = [pc |-> "loaded", kind |-> kind,
                                                     version |-> version,
                                                     inst |-> <<version, gen'[version]>>]]
                           ELSE call
    /\ UNCHANGED <<defHist, schedVars, brkVars, svcVars, jobVars, healthVars, statusVars>>

\* model.predict: with self._lock, the lock of the call's instance is free and taken
ScoreEnter(c) ==
    /\ call[c].pc = "loaded"
    /\ Inside(call[c].inst) = {}
    /\ call' = [call EXCEPT ![c].pc = "inside"]
    /\ UNCHANGED <<regVars, schedVars, brkVars, svcVars, jobVars, healthVars, statusVars>>

\* The sleep under the lock is over and the lock released; a job goes on to its next
\* chunk with the same instance or returns, the other calls return.
ScoreExit(c) ==
    /\ call[c].pc = "inside"
    /\ \E more \in BOOLEAN :
          /\ more => call[c].kind = "chunk"
          /\ call' = [call EXCEPT ![c] =
                        IF more THEN [@ EXCEPT !.pc = "loaded"]
                        ELSE [pc |-> "idle", kind |-> "none", version |-> "none",
                              inst |-> <<"none", 0>>]]
    /\ UNCHANGED <<regVars, schedVars, brkVars, svcVars, jobVars, healthVars, statusVars>>

\* Scoring calls with the admin operations made beside them.
ScoringNext ==
    \/ \E version \in Versions : Load(version)
    \/ \E version \in Versions : Unload(version)
    \/ \E version \in Versions : Promote(version)
    \/ \E c \in Scorers : ScoreCall(c)
    \/ \E c \in Scorers : ScoreEnter(c)
    \/ \E c \in Scorers : ScoreExit(c)

ScoringSpec == Init /\ [][ScoringNext]_vars

\* POST /predict: the status of the reply for a predict that raised err ("none": it
\* returned). QueueFull and CircuitBreakerOpen are caught and turned into 503; any
\* other exception leaves the route and the framework answers 500.
PredictStatus(err) ==
    IF err = "none" THEN 200
    ELSE IF err = "QueueFull" THEN 503
    ELSE IF err = "CircuitBreakerOpen" THEN 503
    ELSE 500

\* ------------------------------------------------- InferenceService.health

\* health(): registry.load(settings.default_model_version) is tried; the reply says
\* ready if it returned and degraded if it raised, and names
\* settings.default_model_version as default_model.
Health ==
    /\ LET version == settings_default_model_version
           out == RegLoad(Registry, version)
       IN /\ RegApply("health", version, out)
          /\ health' = [status |-> IF out.raised = "none" THEN "ready" ELSE "degraded",
                         default_model |-> version]
    /\ UNCHANGED <<defHist, schedVars, brkVars, svcVars, jobVars, scoreVars, statusVars>>

\* Health checks with the admin operations made beside them.
HealthNext ==
    \/ \E version \in Versions : Load(version)
    \/ \E version \in Versions : Unload(version)
    \/ \E version \in Versions : Promote(version)
    \/ Health

HealthSpec == Init /\ [][HealthNext]_vars

\* The registry alone, used by admin threads.
RegistryNext ==
    \/ \E version \in Versions : Load(version)
    \/ \E version \in Versions : Unload(version)
    \/ \E version \in Versions : Promote(version)

RegistrySpec == Init /\ [][RegistryNext]_vars

\* Online requests with promotes made beside them.
ServiceNext ==
    \/ \E version \in Versions : Promote(version)
    \/ \E r \in Requests : Resolve(r)
    \/ \E r \in Requests : Route(r)
    \/ \E r \in Requests : DirectDone(r)
    \/ FStart
    \/ FReadDefault
    \/ FLoadPredict
    \/ \E r \in Requests : Complete(r)

ServiceSpec == Init /\ [][ServiceNext]_vars

\* ------------------------------------------------------------ JobManager

\* The content of a job file: absent, torn (opened for writing, which truncates it,
\* and not yet written and closed), or the JSON object last written.
NoFile == [state |-> "absent"]
TornFile == [state |-> "torn"]

\* json.dump(..., default=str) followed by json.load: what comes back for a value of
\* the given kind. A dict, list, str or number comes back as it was; a tuple comes
\* back as a list, and any other object as the string str() makes of it.
JsonRoundTrip(v) ==
    IF v = NoVal THEN v
    ELSE IF v.kind \in {"dict", "list", "str", "number"} THEN v
    ELSE IF v.kind = "tuple" THEN [v EXCEPT !.kind = "list"]
    ELSE [v EXCEPT !.kind = "str"]

\* _load_job_state: None when the file does not exist or does not parse
LoadJobState(file) == IF file.state = "ok" THEN file ELSE NoVal

\* faulty variant of MergeState: the existing state takes precedence over the updates
MergeState_KeepExisting(file, status, result, error) ==
    IF LoadJobState(file) # NoVal
    THEN file
    ELSE [state |-> "ok", status |-> status, result |-> JsonRoundTrip(result),
          error |-> error]

\* _save_job_state up to the write: the existing state (empty if there is none or it
\* does not parse) updated with the given keys; the error is "" and the result NoVal
\* when the key is not among the updates.
MergeState(file, status, result, error) ==
    LET cur == IF LoadJobState(file) # NoVal
               THEN file
               ELSE [state |-> "ok", status |-> "unknown", result |-> NoVal, error |-> ""]
    IN [state |-> "ok",
        status |-> status,
        result |-> IF result = NoVal THEN cur.result ELSE JsonRoundTrip(result),
        error |-> IF error = "" THEN cur.error ELSE error]

\* status(job_id)
StatusOf(file) ==
    IF LoadJobState(file) # NoVal THEN LoadJobState(file).status ELSE "not_found"

\* result(job_id)
ResultOf(file) ==
    IF LoadJobState(file) # NoVal /\ LoadJobState(file).status = "completed"
    THEN LoadJobState(file).result
    ELSE NoVal

\* JobManager(max_workers=settings.batch_max_workers)
Construct ==
    /\ pool = 0
    /\ \E w \in 1..MaxPool : pool' = w
    /\ UNCHANGED <<nextJob, job, jobFile, execQueue, lockHolder, online, onlineCount,
                   written, heldRows, overtakes, loaded_models, rev, notJob>>

\* submit() called by enqueue_batch: a fresh id, the pending state saved (nobody knows
\* the id before submit returns, so the write is taken as one step), the wrapped
\* function handed to the executor.
SubmitJob ==
    /\ pool > 0
    /\ nextJob <= MaxJobs
    /\ LET j == nextJob IN
       \E inp \in JobInputs :
          /\ nextJob' = nextJob + 1
          /\ jobFile' = [jobFile EXCEPT ![j] = MergeState(jobFile[j], "pending", NoVal, "")]
          /\ written' = [written EXCEPT ![j] = Append(@, "pending")]
          /\ job' = [job EXCEPT ![j] = [@ EXCEPT !.pc = "queued", !.n = inp.n,
                                                 !.model_version = inp.model_version]]
          /\ execQueue' = Append(execQueue, j)
    /\ UNCHANGED <<pool, lockHolder, online, onlineCount, heldRows, overtakes,
                   loaded_models, rev, notJob>>

\* the jobs a thread of the pool is running
Running == {j \in Jobs : job[j].pc \notin {"none", "queued", "done"}}

\* A free thread of the pool takes the oldest item of the work queue; wrapped_fn
\* starts: _save_job_state(running) up to the opening of the file for writing.
JobStart(j) ==
    /\ execQueue # <<>>
    /\ j = Head(execQueue)
    /\ Cardinality(Running) < pool
    /\ execQueue' = Tail(execQueue)
    /\ job' = [job EXCEPT ![j] = [@ EXCEPT !.pc = "w_running",
                                             !.buf = MergeState(jobFile[j], "running", NoVal, "")]]
    /\ jobFile' = [jobFile EXCEPT ![j] = TornFile]
    /\ UNCHANGED <<pool, nextJob, lockHolder, online, onlineCount, written, heldRows,
                   overtakes, loaded_models, rev, notJob>>

\* faulty variant of FinalStatus: an exception of the function is recorded as completed
FinalStatus_AlwaysCompleted(raised) == "completed"

\* the status wrapped_fn writes when the function has returned or raised
FinalStatus(raised) == IF raised = "none" THEN "completed" ELSE "failed"

\* the value _predict_sync returns: a dict with the predictions and the version
JobResult(q) == [kind |-> "dict", predictions |-> q.n, version |-> q.version]

\* the state wrapped_fn saves when the function has returned or raised
FinalState(file, q, raised) ==
    MergeState(file, FinalStatus(raised),
               IF raised = "none" THEN JobResult(q) ELSE NoVal,
               raised)

\* The running state is written and the file closed; the function is called:
\* version = model_version or default_version; model = registry.load(version), which
\* may raise.
JobRunning(j) ==
    /\ job[j].pc = "w_running"
    /\ written' = [written EXCEPT ![j] = Append(@, job[j].buf.status)]
    /\ jobFile' = [jobFile EXCEPT ![j] = job[j].buf]
    /\ LET version == IF job[j].model_version = "none" THEN default_version
                      ELSE job[j].model_version
           out == RegLoad(Registry, version)
       IN /\ RegApply("load", version, out)
          /\ job' = [job EXCEPT ![j] =
                       [@ EXCEPT !.pc = IF out.raised = "none" THEN "want_lock" ELSE "fn_ended",
                                 !.version = version, !.i = 0, !.raised = out.raised]]
    /\ UNCHANGED <<pool, nextJob, execQueue, lockHolder, online, onlineCount, heldRows,
                   overtakes, schedVars, brkVars, svcVars, scoreVars, healthVars,
                   statusVars, defHist>>

\* ------------------------------------------- _predict_sync and the device

\* faulty variant of ChunkRows: the rows are not split into chunks
ChunkRows_Whole(i, n) == n - i

\* len(features[i : i + chunk_size])
ChunkRows(i, n) == Min(chunk_size, n - i)

\* ExampleModel.predict: the time the lock is held for a call on the given rows
Latency(rows) == base_ms + per_row_ms * rows

\* the threads blocked on the device lock
OnlineWaiting == online.pc = "waiting"
JobsWaiting == {j \in Jobs : job[j].pc = "want_lock"}

\* model.predict(chunk) up to the sleep under the lock: the lock is free, the job's
\* thread takes it.
ChunkAcquire(j) ==
    /\ job[j].pc = "want_lock"
    /\ lockHolder = NoHolder
    /\ lockHolder' = j
    /\ heldRows' = ChunkRows(job[j].i, job[j].n)
    /\ job' = [job EXCEPT ![j] = [@ EXCEPT !.pc = "holding",
                                             !.timer = Latency(ChunkRows(job[j].i, job[j].n))]]
    /\ overtakes' = IF OnlineWaiting THEN [overtakes EXCEPT ![j] = @ + 1] ELSE overtakes
    /\ UNCHANGED <<pool, nextJob, jobFile, execQueue, online, onlineCount, written,
                   loaded_models, rev, notJob>>

\* The sleep under the lock is over: the lock is released, the predictions of the
\* chunk are computed and added, and time.sleep(0.05) begins.
ChunkRelease(j) ==
    /\ job[j].pc = "holding"
    /\ job[j].timer = 0
    /\ lockHolder' = NoHolder
    /\ heldRows' = 0
    /\ job' = [job EXCEPT ![j] = [@ EXCEPT !.pc = "sleeping", !.timer = sleep_ms,
                                             !.i = @ + ChunkRows(@, job[j].n)]]
    /\ UNCHANGED <<pool, nextJob, jobFile, execQueue, online, onlineCount, written,
                   overtakes, loaded_models, rev, notJob>>

\* time.sleep(0.05) is over: the next chunk, or the function returns.
SleepEnd(j) ==
    /\ job[j].pc = "sleeping"
    /\ job[j].timer = 0
    /\ job' = [job EXCEPT ![j].pc = IF job[j].i < job[j].n THEN "want_lock" ELSE "fn_ended"]
    /\ UNCHANGED <<pool, nextJob, jobFile, execQueue, lockHolder, online, onlineCount,
                   written, heldRows, overtakes, loaded_models, rev, notJob>>

\* The function has returned or raised: _save_job_state(completed or failed) up to
\* the opening of the file for writing.
JobFinish(j) ==
    /\ job[j].pc = "fn_ended"
    /\ job' = [job EXCEPT ![j] = [@ EXCEPT !.pc = "w_final",
                                             !.buf = FinalState(jobFile[j], job[j], job[j].raised)]]
    /\ jobFile' = [jobFile EXCEPT ![j] = TornFile]
    /\ UNCHANGED <<pool, nextJob, execQueue, lockHolder, online, onlineCount, written,
                   heldRows, overtakes, loaded_models, rev, notJob>>

\* The final state is written and the file closed; wrapped_fn ends and the thread
\* is free again.
JobFinal(j) ==
    /\ job[j].pc = "w_final"
    /\ written' = [written EXCEPT ![j] = Append(@, job[j].buf.status)]
    /\ jobFile' = [jobFile EXCEPT ![j] = job[j].buf]
    /\ job' = [job EXCEPT ![j].pc = "done"]
    /\ UNCHANGED <<pool, nextJob, execQueue, lockHolder, online, onlineCount, heldRows,
                   overtakes, loaded_models, rev, notJob>>

\* The scheduler's thread runs F on a batch: model.predict(features) reaches the lock.
OnlineArrive ==
    /\ online.pc = "idle"
    /\ onlineCount < MaxOnline
    /\ online' = [online EXCEPT !.pc = "waiting"]
    /\ onlineCount' = onlineCount + 1
    /\ overtakes' = [j \in Jobs |-> 0]
    /\ UNCHANGED <<pool, nextJob, job, jobFile, execQueue, lockHolder, written, heldRows,
                   loaded_models, rev, notJob>>

\* The lock is free and the scheduler's thread takes it, for a batch of 1 to
\* max_batch_size rows.
OnlineAcquire ==
    /\ online.pc = "waiting"
    /\ lockHolder = NoHolder
    /\ lockHolder' = OnlineThread
    /\ \E rows \in 1..max_batch_size :
          /\ online' = [pc |-> "holding", timer |-> Latency(rows)]
          /\ heldRows' = rows
    /\ overtakes' = [j \in Jobs |-> 0]
    /\ UNCHANGED <<pool, nextJob, job, jobFile, execQueue, onlineCount, written,
                   loaded_models, rev, notJob>>

\* The scheduler's thread releases the lock; F returns.
OnlineRelease ==
    /\ online.pc = "holding"
    /\ online.timer = 0
    /\ lockHolder' = NoHolder
    /\ heldRows' = 0
    /\ online' = [pc |-> "idle", timer |-> 0]
    /\ UNCHANGED <<pool, nextJob, job, jobFile, execQueue, onlineCount, written,
                   overtakes, loaded_models, rev, notJob>>

\* the threads in a time.sleep, and the time the shortest of them has left
Timed == {j \in Jobs : job[j].pc \in {"holding", "sleeping"}}
Timers == {job[j].timer : j \in Timed} \cup
          (IF online.pc = "holding" THEN {online.timer} ELSE {})
MinTimer == CHOOSE t \in Timers : \A u \in Timers : t <= u

\* Time passes until the first sleep ends. Time passes in the sleeps only: a thread
\* that can take a step takes it before more time passes (a sleep that is over ends,
\* a thread blocked on a free lock takes it, a file opened is written and closed, a
\* free thread of the pool takes the work that is queued).
Advance ==
    /\ Timers # {}
    /\ MinTimer > 0
    /\ ~(lockHolder = NoHolder /\ (OnlineWaiting \/ JobsWaiting # {}))
    /\ \A j \in Jobs : job[j].pc \notin {"w_running", "fn_ended", "w_final"}
    /\ ~(execQueue # <<>> /\ Cardinality(Running) < pool)
    /\ job' = [j \in Jobs |-> IF j \in Timed
                              THEN [job[j] EXCEPT !.timer = @ - MinTimer] ELSE job[j]]
    /\ online' = IF online.pc = "holding"
                 THEN [online EXCEPT !.timer = @ - MinTimer] ELSE online
    /\ UNCHANGED <<pool, nextJob, jobFile, execQueue, lockHolder, onlineCount, written,
                   heldRows, overtakes, loaded_models, rev, notJob>>

\* The JobManager and its jobs.
JobNext ==
    \/ Construct
    \/ SubmitJob
    \/ \E j \in Jobs : JobStart(j)
    \/ \E j \in Jobs : JobRunning(j)
    \/ \E j \in Jobs : ChunkAcquire(j)
    \/ \E j \in Jobs : ChunkRelease(j)
    \/ \E j \in Jobs : SleepEnd(j)
    \/ \E j \in Jobs : JobFinish(j)
    \/ \E j \in Jobs : JobFinal(j)
    \/ Advance

JobSpec == Init /\ [][JobNext]_vars

\* ------------------------------------------- InferenceService.batch_status

\* batch_status(job_id), first read: status = self.job_manager.status(job_id). The
\* call is made for any id that submit returned, by a thread of the HTTP server,
\* beside the threads of the pool.
StatusRead(j) ==
    /\ bstat.pc \in {"idle", "returned"}
    /\ job[j].pc # "none"
    /\ bstat' = [pc |-> "read_status", job_id |-> j, status |-> StatusOf(jobFile[j]),
                 result |-> NoVal]
    /\ UNCHANGED <<jobVars, regVars, schedVars, brkVars, svcVars, scoreVars, healthVars>>

\* batch_status(job_id), second read: result = self.job_manager.result(job_id); the
\* payload is made of the status read before and of this result, if it is not None.
ResultRead ==
    /\ bstat.pc = "read_status"
    /\ bstat' = [bstat EXCEPT !.pc = "returned", !.result = ResultOf(jobFile[bstat.job_id])]
    /\ UNCHANGED <<jobVars, regVars, schedVars, brkVars, svcVars, scoreVars, healthVars>>

\* The JobManager, its jobs, and a client that asks for the status of jobs.
StatusNext ==
    \/ Construct
    \/ SubmitJob
    \/ \E j \in Jobs : JobStart(j)
    \/ \E j \in Jobs : JobRunning(j)
    \/ \E j \in Jobs : ChunkAcquire(j)
    \/ \E j \in Jobs : ChunkRelease(j)
    \/ \E j \in Jobs : SleepEnd(j)
    \/ \E j \in Jobs : JobFinish(j)
    \/ \E j \in Jobs : JobFinal(j)
    \/ Advance
    \/ \E j \in Jobs : StatusRead(j)
    \/ ResultRead

StatusSpec == Init /\ [][StatusNext]_vars

\* the steps of the thread that runs job j
JobThread(j) ==
    \/ JobStart(j)
    \/ JobRunning(j)
    \/ ChunkAcquire(j)
    \/ ChunkRelease(j)
    \/ SleepEnd(j)
    \/ JobFinish(j)
    \/ JobFinal(j)

\* The operating system runs every thread that can run, and time passes.
JobFairSpec ==
    /\ JobSpec
    /\ \A j \in Jobs : WF_vars(JobThread(j))
    /\ WF_vars(Advance)

\* The jobs and the scheduler's batches on the one device.
DeviceNext ==
    \/ Construct
    \/ SubmitJob
    \/ \E j \in Jobs : JobStart(j)
    \/ \E j \in Jobs : JobRunning(j)
    \/ \E j \in Jobs : ChunkAcquire(j)
    \/ \E j \in Jobs : ChunkRelease(j)
    \/ \E j \in Jobs : SleepEnd(j)
    \/ \E j \in Jobs : JobFinish(j)
    \/ \E j \in Jobs : JobFinal(j)
    \/ OnlineArrive
    \/ OnlineAcquire
    \/ OnlineRelease
    \/ Advance

DeviceSpec == Init /\ [][DeviceNext]_vars

Next ==
    \/ Submit
    \/ Start
    \/ WorkerBegin
    \/ GetFirst
    \/ GetMore
    \/ WaitTimeout
    \/ FReturns
    \/ FRaises
    \/ \E s \in Stoppers : StopBegin(s)
    \/ \E s \in Stoppers : StopEnd(s)
    \/ WorkerCancelled
    \/ OrphanFEnds
    \/ Tick

Spec == Init /\ [][Next]_vars

\* =================================================================== claims

Accepted(i) == submitRes[i] = "accepted"

\* number of times the worker settled the future of item i
TimesSettled(i) == Cardinality({k \in 1..Len(settled) : settled[k] = i})

\* the items the worker has taken from the queue, in the order of the batches and of
\* the positions in them
Taken ==
    Flatten([k \in 1..Len(batches) |-> batches[k].items])
        \o (IF worker = "wait_more" THEN batch_items ELSE <<>>)


\* C1 (promise totality): every predict() call that did not fail with QueueFull has
\* its promise settled exactly once: no promise is settled twice, and none stays
\* pending for ever. Nothing settles a promise once the worker task has ended, so
\* when a stop() that waited for the worker has returned, no promise accepted before
\* it returned (taken into a batch, or in the queue at that moment) is pending.
C1_PromiseTotality ==
    /\ \A i \in Items : TimesSettled(i) <= 1
    /\ \A s \in Stoppers :
          stopPc[s] = "done" =>
             \A i \in leftAtStop[s] \cup Range(Taken) : fut[i] \in {"result", "exception"}

\* C2 (all-or-nothing batch outcome): of every batch handed to F, either every item
\* is fulfilled with the prediction at its own position in F's output, or every
\* item is rejected with the one error F raised; while F has not come back to the
\* worker no item of the batch is settled, so no batch is ever partly settled or
\* settled in two ways.
C2_AllOrNothing ==
    \A k \in 1..Len(batches) :
        LET b == batches[k] IN
        /\ b.outcome = "ok" =>
              /\ Len(b.preds) = Len(b.items)
              /\ \A p \in 1..Len(b.items) :
                    fut[b.items[p]] = "result" /\ val[b.items[p]] = b.preds[p]
        /\ b.outcome = "raised" =>
              /\ b.err \in FErrors
              /\ \A p \in 1..Len(b.items) :
                    fut[b.items[p]] = "exception" /\ val[b.items[p]] = b.err
        /\ b.outcome \in {"running", "abandoned"} =>
              \A p \in 1..Len(b.items) : fut[b.items[p]] = "pending"

\* C2 witness: a batch of two items was fulfilled position by position (the two
\* predictions differ) and another batch was rejected as a whole.
C2_Witness ==
    /\ \E k \in 1..Len(batches) :
          /\ batches[k].outcome = "ok"
          /\ Len(batches[k].items) >= 2
          /\ val[batches[k].items[1]] # val[batches[k].items[2]]
    /\ \E k \in 1..Len(batches) : batches[k].outcome = "raised"

\* C3 (FIFO): the items taken from the queue, listed batch after batch and position
\* after position, followed by the items still queued, are the accepted items in
\* enqueue order; and the promises are settled in enqueue order (an item is settled
\* only after every item enqueued before it).
C3_Fifo ==
    /\ Taken \o queue = enq
    /\ IsPrefix(settled, enq)

\* C3 witness: three items went through two batches and were all settled.
C3_Witness ==
    /\ Len(settled) >= 3
    /\ Len(batches) >= 2

\* C4 (batch size bound): every batch handed to F has between 1 and max_batch_size
\* items.
C4_BatchSize ==
    \A k \in 1..Len(batches) :
        /\ Len(batches[k].items) >= 1
        /\ Len(batches[k].items) <= max_batch_size

\* C4 witness: a full batch and a batch closed before it was full were both scored.
C4_Witness ==
    /\ \E k \in 1..Len(batches) : Len(batches[k].items) = max_batch_size
    /\ \E k \in 1..Len(batches) : Len(batches[k].items) < max_batch_size
    /\ max_batch_size > 1

\* C5 (bounded queue, overload rejection): the queue never holds more than
\* max_queue_size items; a predict() made when it holds max_queue_size fails with
\* QueueFull, enqueues nothing and changes no other item's promise or result; a
\* predict() made when it holds fewer is accepted at the tail. So the first
\* max_queue_size submissions are never refused, and when the worker has taken
\* nothing the submission number max_queue_size + 1 is the one refused.
C5_BoundedQueue ==
    [][ /\ Len(queue') <= max_queue_size
        /\ \A i \in Items :
              (nextItem = i /\ nextItem' = i + 1) =>
                 IF Len(queue) >= max_queue_size
                 THEN /\ submitRes'[i] = "QueueFull"
                      /\ fut'[i] = "cancelled"
                      /\ queue' = queue
                      /\ enq' = enq
                      /\ \A j \in Items \ {i} : fut'[j] = fut[j] /\ val'[j] = val[j]
                 ELSE /\ submitRes'[i] = "accepted"
                      /\ fut'[i] = "pending"
                      /\ queue' = Append(queue, i)
        /\ \A i \in Items : submitRes'[i] = "QueueFull" => i > max_queue_size
        /\ (nextItem' > max_queue_size + 1 /\ Taken' = <<>>) =>
              submitRes'[max_queue_size + 1] = "QueueFull"
      ]_vars

\* C5 witness: a submission was refused with QueueFull and the items accepted before
\* it have all been resolved since.
C5_Witness ==
    \E i \in Items :
        /\ submitRes[i] = "QueueFull"
        /\ i = max_queue_size + 1
        /\ \A j \in 1..(i - 1) : Accepted(j) /\ fut[j] = "result"

\* C6 (stop rejects what is left): when a stop() call that waited for the worker
\* has returned, every item that was in the queue at that moment has its promise
\* rejected with SchedulerStopped.
C6_StopRejectsQueued ==
    \A s \in Stoppers :
        stopPc[s] = "done" =>
           \A i \in leftAtStop[s] : fut[i] = "exception" /\ val[i] = "SchedulerStopped"

\* C7 (no batch after shutdown): no invocation of F begins once stop() has set the
\* shutdown flag.
C7_NoBatchAfterShutdown ==
    \A k \in 1..Len(batches) : ~batches[k].shut

\* ------------------------------------------------------ circuit breaker

\* the step is an __exit__ with the given outcome, made in the given breaker state
ExitStep(state, outcome) ==
    /\ bev'.op = "exit"
    /\ bev'.outcome = outcome
    /\ breaker.state = state

\* the step is an attempt to enter the guarded region
EntryStep == bev'.op \in {"enter", "refused"}

\* the time since the last recorded failure
SinceFailure == now - breaker.last_failure_time

\* The counting part of C8: in CLOSED an expected error adds one to the counter and
\* records the time, a success sets the counter to zero; the counter is the number
\* of consecutive expected errors; the breaker leaves CLOSED for OPEN exactly on the
\* expected error that brings the counter to failure_threshold.
ClosedCounting ==
    /\ ExitStep("CLOSED", "expected") =>
          /\ breaker'.failure_count = breaker.failure_count + 1
          /\ breaker'.last_failure_time = now
          /\ breaker'.state =
                IF breaker'.failure_count >= failure_threshold THEN "OPEN" ELSE "CLOSED"
    /\ ExitStep("CLOSED", "success") =>
          /\ breaker'.failure_count = 0
          /\ breaker'.state = "CLOSED"
    /\ breaker'.state = "CLOSED" =>
          /\ breaker'.failure_count = consec'
          /\ consec' < failure_threshold
    /\ (breaker.state = "CLOSED" /\ breaker'.state = "OPEN") =>
          /\ ExitStep("CLOSED", "expected")
          /\ consec' = failure_threshold

\* C8 as stated (breaker closed-state counting): the counting rules, and after
\* failure_threshold consecutive expected errors in CLOSED the next entry raises
\* CircuitBreakerOpen.
C8_NextEntryRefused ==
    [][ /\ ClosedCounting
        /\ (tripped /\ EntryStep) => bev'.op = "refused"
      ]_vars

\* C8 amended: the counting rules, and after failure_threshold consecutive expected
\* errors in CLOSED the next entry raises CircuitBreakerOpen and leaves the breaker
\* as it is, provided it is made no later than recovery_timeout after the last
\* recorded failure.
C8_ClosedCounting ==
    [][ /\ ClosedCounting
        /\ (tripped /\ EntryStep /\ SinceFailure <= recovery_timeout) =>
              /\ bev'.op = "refused"
              /\ breaker' = breaker
      ]_vars

\* C8 witness: the breaker opened on the expected error number failure_threshold and
\* the next entry has just been refused.
C8_Witness ==
    /\ bev.op = "refused"
    /\ breaker.state = "OPEN"
    /\ breaker.failure_count = failure_threshold
    /\ consec = failure_threshold

\* what an entry that is let in does: the caller is inside, the counter and the time
\* of the last failure are as before
LetIn ==
    /\ bev'.op = "enter"
    /\ \E c \in Callers : guarded[c] = "out" /\ guarded' = [guarded EXCEPT ![c] = "in"]
    /\ breaker'.failure_count = breaker.failure_count
    /\ breaker'.last_failure_time = breaker.last_failure_time

\* what a refused entry does: CircuitBreakerOpen, nobody enters, the breaker is as before
Refused ==
    /\ bev'.op = "refused"
    /\ guarded' = guarded
    /\ breaker' = breaker

\* C9 as stated (open-state entry rule): in OPEN an entry is refused if the time since
\* the last failure is less than recovery_timeout, and moves the breaker to HALF_OPEN
\* and is let in if it is greater than or equal to recovery_timeout.
C9_OpenEntryAtTimeout ==
    [][ (EntryStep /\ breaker.state = "OPEN") =>
           IF SinceFailure < recovery_timeout
           THEN Refused
           ELSE LetIn /\ breaker'.state = "HALF_OPEN"
      ]_vars

\* C9 amended: in OPEN an entry is refused (the guarded call is not run, the breaker
\* is unchanged) if the time since the last failure is less than or equal to
\* recovery_timeout, and moves the breaker to HALF_OPEN and is let in only if it is
\* strictly greater: at exactly recovery_timeout the entry is still refused.
C9_OpenEntry ==
    [][ (EntryStep /\ breaker.state = "OPEN") =>
           IF SinceFailure <= recovery_timeout
           THEN Refused
           ELSE LetIn /\ breaker'.state = "HALF_OPEN"
      ]_vars

\* C9 witness: an entry has just been refused exactly recovery_timeout after the last
\* failure.
C9_Witness ==
    /\ bev.op = "refused"
    /\ breaker.state = "OPEN"
    /\ SinceFailure = recovery_timeout

\* C10 (half-open resolution): in HALF_OPEN a success moves the breaker to CLOSED
\* with the counter at zero, an expected error moves it to OPEN with the time of the
\* last failure set to the time of that error; the breaker leaves HALF_OPEN by such
\* an outcome only (not by an entry, nor by time passing), and it is not HALF_OPEN
\* after one.
C10_HalfOpen ==
    [][ /\ ExitStep("HALF_OPEN", "success") =>
              /\ breaker'.state = "CLOSED"
              /\ breaker'.failure_count = 0
        /\ ExitStep("HALF_OPEN", "expected") =>
              /\ breaker'.state = "OPEN"
              /\ breaker'.last_failure_time = now
        /\ (breaker.state = "HALF_OPEN" /\ breaker'.state # "HALF_OPEN") =>
              \/ ExitStep("HALF_OPEN", "success")
              \/ ExitStep("HALF_OPEN", "expected")
        /\ (breaker.state = "HALF_OPEN" /\ EntryStep) => LetIn /\ breaker' = breaker
      ]_vars

\* C10 witness: a probe has just failed in HALF_OPEN: the breaker is OPEN again and
\* its timer was restarted at a later time than the failure that had opened it.
C10_Witness ==
    /\ bev.op = "exit"
    /\ bev.from = "HALF_OPEN"
    /\ bev.outcome = "expected"
    /\ breaker.state = "OPEN"
    /\ breaker.last_failure_time = now
    /\ now > recovery_timeout

\* C11 (breaker half-open singularity): while the probe admitted by an OPEN ->
\* HALF_OPEN transition is still inside the guarded region and the breaker is still
\* HALF_OPEN, every other caller that tries to enter is refused.
C11_HalfOpenSingularity ==
    [][ (EntryStep /\ breaker.state = "HALF_OPEN" /\ probe # 0) => Refused ]_vars

\* ------------------------------------------------------------- registry

\* the step is the registry operation op on the given version
RegStep(op, version) == rev'.op = op /\ rev'.version = version /\ rev' # rev

\* C12 (registry default consistency): in every reachable state of the registry, from
\* construction onward, the default version is in the cache of loaded models; an
\* unload of the default version is refused and changes neither cache nor default.
C12_DefaultLoaded ==
    default_version \in loaded_models

\* C15 (promote is load-then-swap in one step): a promote of a version that is cached
\* or has an artifact leaves it cached and makes it the default; a promote of a
\* version without artifact fails with FileNotFoundError and changes neither the
\* cache nor the default; and whenever the default changes, the new default is in
\* the cache in the very state that shows it.
C15_PromoteAtomic ==
    [][ /\ \A v \in Versions :
              RegStep("promote", v) =>
                 IF v \in loaded_models \/ v \in Artifacts
                 THEN /\ rev'.raised = "none"
                      /\ loaded_models' = loaded_models \cup {v}
                      /\ default_version' = v
                 ELSE /\ rev'.raised = "FileNotFoundError"
                      /\ loaded_models' = loaded_models
                      /\ default_version' = default_version
        /\ default_version' # default_version => default_version' \in loaded_models'
      ]_vars

\* C15 witness: the last registry operation was a promote of a version that was not
\* cached: it is now cached and the default.
C15_Witness ==
    /\ rev.op = "promote"
    /\ ~rev.cached
    /\ rev.raised = "none"
    /\ default_version = rev.version
    /\ rev.version \in loaded_models
    /\ rev.version # "v1"

\* ---------------------------------------------------- InferenceService.predict

\* C13 (version attribution of online responses): the version a completed predict
\* reports is the version of the model that scored every one of its rows.
C13_VersionAttribution ==
    \A r \in Requests :
        req[r].pc = "done" =>
           \A k \in 1..req[r].n : req[r].scored[k] = req[r].resp

\* C14 (promotion atomicity across in-flight traffic): a completed request that
\* named no version reports the default that was in force when it started, whatever
\* promote came after: the old default for a request that started before a promote,
\* the promoted version for one that started after the promote returned.
C14_PromotionAtomicity ==
    \A r \in Requests :
        (req[r].pc = "done" /\ req[r].model_version = "none") =>
           req[r].resp = defHist[req[r].start]

\* C14 witness: a request that started under v1 completed after promote(v2) and
\* reports v1; a request that started after the promote completed and reports v2.
C14_Witness ==
    /\ defHist = <<"v1", "v2">>
    /\ \E r1, r2 \in Requests :
          /\ req[r1].pc = "done" /\ req[r1].model_version = "none"
          /\ req[r1].start = 1 /\ req[r1].resp = "v1"
          /\ req[r2].pc = "done" /\ req[r2].model_version = "none"
          /\ req[r2].start = 2 /\ req[r2].resp = "v2"

\* ------------------------------------------------------------- offline jobs

Submitted(j) == job[j].pc # "none"

\* C16 (job status lattice): the statuses written to a job's record are a prefix of
\* pending, running, completed or of pending, running, failed: never backwards,
\* never without running, nothing after completed or failed; and the record, when it
\* can be read, shows the status written last.
C16_StatusLattice ==
    \A j \in Jobs :
        /\ \/ IsPrefix(written[j], <<"pending", "running", "completed">>)
           \/ IsPrefix(written[j], <<"pending", "running", "failed">>)
        /\ LoadJobState(jobFile[j]) # NoVal =>
              /\ written[j] # <<>>
              /\ jobFile[j].status = written[j][Len(written[j])]

\* C16 witness: one job went pending, running, completed and another pending,
\* running, failed.
C16_Witness ==
    \E j1, j2 \in Jobs :
        /\ written[j1] = <<"pending", "running", "completed">>
        /\ written[j2] = <<"pending", "running", "failed">>

\* C17 (job lookup): status(job_id) is not_found for an id that was never submitted,
\* and for an id that submit returned it is pending, running, completed or failed,
\* whenever it is read (and not failed if the job's function did not raise).
C17_JobLookup ==
    \A j \in Jobs :
        IF Submitted(j)
        THEN /\ StatusOf(jobFile[j]) \in {"pending", "running", "completed", "failed"}
             /\ job[j].raised = "none" => StatusOf(jobFile[j]) # "failed"
        ELSE StatusOf(jobFile[j]) = "not_found"

\* the record of job j shows how its function ended
Terminal(j) ==
    /\ job[j].pc = "done"
    /\ IF job[j].raised = "none"
       THEN /\ StatusOf(jobFile[j]) = "completed"
            /\ ResultOf(jobFile[j]) = JobResult(job[j])
       ELSE /\ StatusOf(jobFile[j]) = "failed"
            /\ jobFile[j].error = job[j].raised
            /\ ResultOf(jobFile[j]) = NoVal

\* C18 (job completion): every job that submit accepted reaches a terminal status,
\* completed with the function's result readable through result(job_id) if the
\* function returned, failed with the error message if it raised, and keeps it.
C18_JobCompletion ==
    /\ \A j \in Jobs : Submitted(j) ~> Terminal(j)
    /\ [][\A j \in Jobs : Terminal(j) => Terminal(j)']_vars

\* C18 witness: with a pool of one thread, two jobs are terminal, one completed with
\* its result readable and one failed.
C18_Witness ==
    /\ pool = 1
    /\ \E j1, j2 \in Jobs :
          /\ Terminal(j1) /\ StatusOf(jobFile[j1]) = "completed"
          /\ ResultOf(jobFile[j1]).predictions = job[j1].n
          /\ Terminal(j2) /\ StatusOf(jobFile[j2]) = "failed"

\* C19 (chunked offline scoring): every holding of the device lock by an offline job
\* covers between 1 and chunk_size rows, the job's progress moves by one chunk at a
\* time and only in the step that releases the lock, and the job takes the lock only
\* from a state in which it does not hold it: between two chunks of a job there is a
\* state in which the job does not hold the lock.
C19_ChunkedScoring ==
    [][ \A j \in Jobs :
          /\ lockHolder' = j => (heldRows' >= 1 /\ heldRows' <= chunk_size)
          /\ job'[j].i # job[j].i =>
                /\ lockHolder = j /\ lockHolder' # j
                /\ job'[j].i - job[j].i = heldRows
          /\ (lockHolder = j /\ lockHolder' = j) => job'[j].i = job[j].i
      ]_vars

\* C19 witness: a job of more than chunk_size rows holds the lock for its second
\* chunk.
C19_Witness ==
    \E j \in Jobs :
        /\ lockHolder = j
        /\ job[j].n > chunk_size
        /\ job[j].i = chunk_size
        /\ heldRows = chunk_size

\* C20 (online traffic is not starved by offline jobs): a scheduler batch that waits
\* for the device lock gets it during an inter-chunk yield: once the batch waits, no
\* offline job takes the lock a second time before the batch has it.
C20_OnlineNotStarved ==
    \A j \in Jobs : overtakes[j] <= 1

\* ---------------------------------------------------------- the device lock

\* C21 (device mutual exclusion): at most one scoring call is inside the locked
\* section of a model (of a version) at any moment, whoever the callers are and
\* whatever loads and unloads were made while calls were in flight.
C21_DeviceMutualExclusion ==
    \A c1, c2 \in Scorers :
        (c1 # c2 /\ call[c1].pc = "inside" /\ call[c2].pc = "inside")
            => call[c1].version # call[c2].version

\* ------------------------------------------------------------ online routing

\* the scheduler is live: started (a worker task exists and has not ended) and not
\* stopped
SchedulerLive == worker \notin {"none", "done"} /\ ~shutdown

\* C22 (online routing): predict hands its rows to the scheduler only when the
\* effective version is the current default and the scheduler is live; in every other
\* case it loads the model and scores directly, without the scheduler's queue.
C22_OnlineRouting ==
    [][ \A r \in Requests :
          (req[r].pc = "resolved" /\ req'[r].pc # "resolved") =>
              IF req[r].version = default_version /\ SchedulerLive
              THEN req'[r].pc \in {"queued", "failed"} /\ req'[r].err \in {"none", "QueueFull"}
              ELSE /\ rowQueue' = rowQueue
                   /\ req'[r].pc \in {"direct", "failed"}
                   /\ req'[r].err \in {"none", "FileNotFoundError"}
      ]_vars

\* C23 (error mapping of the online path): a predict that fails with QueueFull is
\* answered overload (503), with BreakerOpen overload (503), with a version that has
\* no artifact not-found (404), with any other failure internal error (500).
C23_ErrorMapping ==
    \A r \in Requests :
        req[r].pc = "failed" =>
            PredictStatus(req[r].err) =
                CASE req[r].err = "QueueFull" -> 503
                  [] req[r].err = "CircuitBreakerOpen" -> 503
                  [] req[r].err = "FileNotFoundError" -> 404
                  [] OTHER -> 500

\* --------------------------------------------------------- scheduler latency

Max(a, b) == IF a > b THEN a ELSE b

\* the worker settles the future of item i in this step
Settles(i) == fut[i] = "pending" /\ fut'[i] \in {"result", "exception"}

\* C24 as stated (head-of-queue latency bound): an accepted item enqueued at t is
\* settled no later than t + max_latency + the scoring time + the scheduling slack,
\* however many items are queued.
C24_LatencyBound ==
    [][ \A i \in Items :
          Settles(i) => now <= received_at[i] + max_latency + ScoreTime + Slack ]_vars

\* C24 amended: the bound runs from the moment the worker takes the first item of
\* the batch: with g that moment and d = enqueue time of that item + max_latency,
\* every item of the batch is settled no later than max(g, d) + the scoring time; for
\* a batch whose first item was taken when it was enqueued that is t + max_latency +
\* the scoring time.
C24_BatchLatencyBound ==
    [][ \A i \in Items :
          Settles(i) =>
              /\ now <= Max(takenAt, received_at[batch_items[1]] + max_latency) + ScoreTime
              /\ takenAt = received_at[batch_items[1]] =>
                    now <= received_at[batch_items[1]] + max_latency + ScoreTime
      ]_vars

\* C24 witness: an item that was enqueued while the batch before its own was being
\* scored has just been settled, later than its enqueue time + max_latency + the
\* scoring time + the slack.
C24_Witness ==
    /\ Len(batches) >= 2
    /\ batches[Len(batches)].outcome = "ok"
    /\ now = batches[Len(batches)].at + ScoreTime
    /\ \E k \in 1..Len(batches[Len(batches)].items) :
          LET i == batches[Len(batches)].items[k]
          IN /\ fut[i] = "result"
             /\ received_at[i] >= batches[Len(batches) - 1].at
             /\ now > received_at[i] + max_latency + ScoreTime + Slack

\* ------------------------------------------------- the breaker and the errors

\* C25 (the breaker never swallows or replaces an error): when the guarded call
\* raises, expected or not, its caller sees that same error, after __exit__ has done
\* its bookkeeping (an expected error is counted and its time recorded, another error
\* leaves the breaker as it is); a call that returns is seen to return;
\* CircuitBreakerOpen is seen exactly when the entry is refused, and then the caller
\* does not get inside the guarded region and the breaker does not change.
C25_NeverSwallows ==
    [][ /\ \A c \in Callers :
              (guarded[c] = "in" /\ guarded'[c] = "out") =>
                  /\ bev'.op = "exit"
                  /\ bev'.seen = IF bev'.outcome = "success" THEN "returned" ELSE bev'.outcome
                  /\ bev'.outcome = "expected" =>
                        /\ breaker'.failure_count = breaker.failure_count + 1
                        /\ breaker'.last_failure_time = now
                  /\ bev'.outcome = "unexpected" => breaker' = breaker
        /\ bev'.seen = "CircuitBreakerOpen" <=> bev'.op = "refused"
        /\ bev'.op = "refused" => (guarded' = guarded /\ breaker' = breaker)
        /\ \A c \in Callers :
              (guarded[c] = "out" /\ guarded'[c] = "in") =>
                  (bev'.op = "enter" /\ bev'.seen = "none")
      ]_vars

\* C25 witness: the guarded call raised an expected error that opened the breaker,
\* and its caller saw that error.
C25_Witness ==
    /\ bev.op = "exit"
    /\ bev.outcome = "expected"
    /\ bev.seen = "expected"
    /\ bev.from = "CLOSED"
    /\ breaker.state = "OPEN"

\* ------------------------------------------------------------ registry load

\* C26 (load is idempotent): a load of a cached version returns the cached instance
\* and constructs nothing; a load of a version that is not cached constructs one
\* instance and caches it when the artifact exists, and raises FileNotFoundError
\* leaving the cache and the default as they were when it does not; load never changes
\* the default; an instance is constructed only for a version that is not cached, a
\* version leaves the cache only by unload, and every caller of load gets the
\* instance that is in the cache, so all the loads made between two unloads of a
\* version return one and the same instance.
C26_LoadIdempotent ==
    [][ \A v \in Versions :
          /\ RegStep("load", v) =>
                /\ default_version' = default_version
                /\ v \in loaded_models =>
                      /\ rev'.raised = "none"
                      /\ loaded_models' = loaded_models
                      /\ gen' = gen
                /\ (v \notin loaded_models /\ v \in Artifacts) =>
                      /\ rev'.raised = "none"
                      /\ loaded_models' = loaded_models \cup {v}
                      /\ gen' = [gen EXCEPT ![v] = @ + 1]
                /\ (v \notin loaded_models /\ v \notin Artifacts) =>
                      /\ rev'.raised = "FileNotFoundError"
                      /\ loaded_models' = loaded_models
                      /\ gen' = gen
          /\ gen'[v] # gen[v] => v \notin loaded_models
          /\ (v \in loaded_models /\ v \notin loaded_models') => RegStep("unload", v)
          /\ \A c \in Scorers :
                (call[c].pc = "idle" /\ call'[c].pc = "loaded" /\ call'[c].version = v) =>
                    (v \in loaded_models' /\ call'[c].inst = <<v, gen'[v]>>)
      ]_vars

\* C26 witness: two calls in flight loaded the same version, the second found it
\* cached, and both hold the one instance constructed for it.
C26_Witness ==
    /\ rev.op = "load" /\ rev.cached /\ rev.raised = "none"
    /\ \E c1, c2 \in Scorers :
          /\ c1 # c2
          /\ call[c1].pc # "idle" /\ call[c2].pc # "idle"
          /\ call[c1].version = rev.version
          /\ call[c1].inst = call[c2].inst
          /\ gen[rev.version] = 1

\* ------------------------------------------------------- batch closing rule

\* the worker closes the batch it was collecting and hands it to F in this step
Closes == Len(batches') = Len(batches) + 1

\* C27 (batch closing rule): with d the deadline of the batch (enqueue time of its
\* first item + max_latency), the worker closes a batch only when (a) it holds
\* max_batch_size items, or (b) the wait for a further item ran out at d, or (c) the
\* time is already >= d and no item is immediately available; it begins to wait for a
\* further item only while the time is < d and no time passes while it waits once the
\* time is >= d; a batch closed short of max_batch_size leaves no item in the queue
\* that was enqueued before d.
C27_ClosingRule ==
    [][ /\ Closes =>
              \/ Len(batch_items') = max_batch_size
              \/ worker = "wait_more" /\ batch_items' = batch_items /\ now >= deadline'
              \/ now >= deadline' /\ queue' = <<>>
        /\ (worker' = "wait_more" /\ (worker # "wait_more" \/ batch_items' # batch_items))
              => now < deadline'
        /\ (worker = "wait_more" /\ now >= deadline) => now' = now
        /\ (Closes /\ Len(batch_items') < max_batch_size) =>
              \A k \in 1..Len(queue') : received_at[queue'[k]] >= deadline'
      ]_vars

\* ------------------------------------------------------------ single worker

\* C28 (single worker): start() is idempotent: whatever start() and stop() calls are
\* made, a scheduler has at most one worker task; a start() issued while a worker task
\* is recorded creates nothing and changes nothing of the scheduler, and the record of
\* the task is never cleared.
C28_SingleWorker ==
    [][ /\ started'.spawned <= 1
        /\ started'.spawned # started.spawned => (worker = "none" /\ worker' = "created")
        /\ (started'.calls # started.calls /\ worker # "none") =>
              /\ started'.spawned = started.spawned
              /\ <<worker, shutdown, mustCancel, queue, batch_items, fut>>'
                    = <<worker, shutdown, mustCancel, queue, batch_items, fut>>
        /\ worker' = "none" => worker = "none"
      ]_vars

\* C28 witness: start() was called twice, so once with a worker task recorded, stop()
\* has ended the worker, and one task was created in all.
C28_Witness ==
    /\ started = [calls |-> 2, spawned |-> 1]
    /\ worker = "done"
    /\ shutdown

\* --------------------------------------------------------- cancelled callers

\* F has ended on the current batch and the worker settles the futures in this step
Completes == worker = "scoring" /\ batches'[Len(batches)].outcome \in {"ok", "raised"}

\* C29 (cancelled callers are benign): a caller cancelled while its item is in the
\* queue or in a batch leaves the worker, the queue and the batch as they are; the
\* batch is still scored, with the item's row in its place, and when F ends the worker
\* goes on: the cancelled future is left cancelled and every other item of the batch
\* gets what it would have got, its own prediction or the error of F.
C29_CancelledCallersBenign ==
    [][ /\ \A i \in Items :
              (fut[i] = "pending" /\ fut'[i] = "cancelled") =>
                  <<worker, queue, batch_items, batches, val, mustCancel>>'
                      = <<worker, queue, batch_items, batches, val, mustCancel>>
        /\ Completes =>
              /\ worker' \in {"wait_first", "done"}
              /\ batches'[Len(batches)].items = batch_items
              /\ \A k \in 1..Len(batch_items) :
                    LET i == batch_items[k]
                    IN IF fut[i] = "pending"
                       THEN IF batches'[Len(batches)].outcome = "ok"
                            THEN fut'[i] = "result" /\ val'[i] = ScoreRow(RowOf(i))
                            ELSE fut'[i] = "exception"
                                 /\ val'[i] = batches'[Len(batches)].err
                       ELSE fut'[i] = fut[i] /\ val'[i] = val[i]
      ]_vars

\* C29 witness: a batch of two items was scored after the caller of one of them had
\* been cancelled; the other item has its own prediction.
C29_Witness ==
    \E k \in 1..Len(batches) :
        /\ batches[k].outcome = "ok"
        /\ Len(batches[k].items) = 2
        /\ \E a, b \in {1, 2} :
              /\ fut[batches[k].items[a]] = "cancelled"
              /\ submitRes[batches[k].items[a]] = "accepted"
              /\ fut[batches[k].items[b]] = "result"
              /\ val[batches[k].items[b]] = ScoreRow(RowOf(batches[k].items[b]))

\* ------------------------------------------------------------------- health

\* C30 (health follows the current default): the reply of health() names the
\* registry's current default version as default_model, and says ready exactly when
\* that version can be resolved (it is cached or its artifact exists), degraded
\* otherwise.
C30_HealthFollowsDefault ==
    rev.op = "health" =>
        /\ health.default_model = default_version
        /\ health.status = IF default_version \in loaded_models \cup Artifacts
                           THEN "ready" ELSE "degraded"

\* ------------------------------------------------ one batch execution at a time

\* the invocations of F in progress: the batch whose thread the worker awaits, and
\* the threads left running by a worker cancelled while it awaited them
InProgress ==
    Cardinality({k \in 1..Len(batches) : batches[k].outcome = "running"}) + orphanF

\* C31 (at most one batch execution at a time): under any start, submit and stop
\* calls at most one invocation of F is in progress, and when the worker hands a
\* batch to F the call on every earlier batch has returned or raised.
C31_OneBatchAtATime ==
    /\ InProgress <= 1
    /\ \A k \in 1..(Len(batches) - 1) : batches[k].outcome \in {"ok", "raised"}

\* a second batch is being scored, after the first one's call ended
C31_Witness == Len(batches) >= 2 /\ batches[Len(batches)].outcome = "running"

\* ------------------------------------------------------------- job snapshot

\* C32 (consistent job snapshot): the payload batch_status returns holds a result
\* only if the status in the same payload is completed, whatever the job's thread
\* writes between the two reads of the record.
C32_ConsistentSnapshot ==
    bstat.pc = "returned" => (bstat.result # NoVal => bstat.status = "completed")

\* ------------------------------------------------- rejected multi-row requests

\* C33 (a rejected multi-row request leaves nothing behind): when predict fails with
\* QueueFull for a request of several rows, no row of that request is in the
\* scheduler's queue, and none is or was in a batch handed to F.
C33_RejectedLeavesNothing ==
    \A r \in Requests :
        (req[r].pc = "failed" /\ req[r].err = "QueueFull" /\ req[r].n > 1) =>
            /\ RowsIn(rowQueue, r) = {}
            /\ RowsIn(fcall.rows, r) = {}
            /\ \A k \in 1..req[r].n : req[r].scored[k] = "none"

====
